---- MODULE Spec2Model ----
(***************************************************************************)
(* The configuration loaders of microcosm_dynamodb/loaders.py:             *)
(* DynamoDBLoader (plaintext rows) and EncryptedDynamoDBLoader (KMS        *)
(* envelope encryption, after credstash), over a DynamoDB table keyed by   *)
(* (service_service, config_name).                                         *)
(*                                                                         *)
(* Representation.  A Python text string is the sequence of its code       *)
(* points and a byte string the sequence of its bytes, so "b.z" is         *)
(* <<98, 46, 122>>.  A dict with string keys is a function whose domain is  *)
(* the set of its keys.  A namedtuple instance, a str and None are records *)
(* [type, fields].  The nested configuration dict built by __call__ is a   *)
(* function from paths (sequences of keys) to nodes [kind, val].           *)
(***************************************************************************)
EXTENDS Integers, Sequences, FiniteSets, TLC

\* ---------------------------------------------------------------- bounds

\* Rows the table may hold at once (guard of a put that adds a row).
MaxRows == 2

\* generate_data_key requests the key service answers in one behaviour.
MaxKeys == 2

\* ------------------------------------------------------ program constants

\* NumberOfBytes=64 of the generate_data_key request.
NumberOfBytes == 64

\* The [:32] / [32:] split of the key material.
KeySplit == 32

\* Counter.new(128): a 128-bit counter block, 16 bytes of keystream each.
CounterBits == 128

\* separator="." of DynamoDBLoader.__init__.
separator == <<46>>

CONFIG_NAME == "config_name"

SERVICE_NAME == "service_service"

\* --------------------------------------------------------------- sequences

Min(a, b) == IF a < b THEN a ELSE b

\* F(x) with x evaluated once: `LET v == x IN F(v)`.
With(x, F(_)) == CHOOSE y \in {F(v) : v \in {x}} : TRUE

\* s[lo..hi] (1-based, inclusive), empty when lo > hi.
Slice(s, lo, hi) == SubSeq(s, lo, hi)

\* Python's s[:n] and s[n:] for 0 <= n.
Take(s, n) == Slice(s, 1, Min(n, Len(s)))

Drop(s, n) == Slice(s, Min(n, Len(s)) + 1, Len(s))

Last(s) == s[Len(s)]

Front(s) == Slice(s, 1, Len(s) - 1)

IsPrefix(p, s) == Len(p) <= Len(s) /\ Take(s, Len(p)) = p

RECURSIVE Flatten(_)
Flatten(ss) == IF ss = <<>> THEN <<>> ELSE Head(ss) \o Flatten(Tail(ss))


\* Lexicographic order on strings by code point (the order of a DynamoDB
\* string sort key for the code points used here).
RECURSIVE StrLess(_, _)
StrLess(a, b) ==
    IF b = <<>> THEN FALSE
    ELSE IF a = <<>> THEN TRUE
    ELSE IF Head(a) # Head(b) THEN Head(a) < Head(b)
    ELSE StrLess(Tail(a), Tail(b))

\* The strings of a finite set in ascending order.
RECURSIVE SortStrs(_)
SortStrs(S) ==
    IF S = {} THEN <<>>
    ELSE With(CHOOSE x \in S : \A y \in S \ {x} : StrLess(x, y),
              LAMBDA m : <<m>> \o SortStrs(S \ {m}))

\* ------------------------------------------------------------- str.split

\* Index of the first occurrence of sep in s at or after position i, or 0.
RECURSIVE FindSep(_, _, _)
FindSep(s, sep, i) ==
    IF i + Len(sep) - 1 > Len(s) THEN 0
    ELSE IF Slice(s, i, i + Len(sep) - 1) = sep THEN i
    ELSE FindSep(s, sep, i + 1)

\* name.split(sep): the pieces between occurrences of sep, empty pieces kept.
RECURSIVE Split(_, _)
Split(s, sep) ==
    With(FindSep(s, sep, 1),
         LAMBDA i : IF i = 0 THEN <<s>>
                    ELSE <<Slice(s, 1, i - 1)>> \o Split(Drop(s, i + Len(sep) - 1), sep))

\* ------------------------------------------------------------ Python values

\* A dict with no keys.
EmptyDict == [k \in {} |-> <<>>]

\* d1.update(d2) on dicts: the keys of both, d2's value where both have one.
DictUpdate(d1, d2) ==
    [k \in (DOMAIN d1) \cup (DOMAIN d2) |-> IF k \in DOMAIN d2 THEN d2[k] ELSE d1[k]]

\* {k: v for k, v in d.items() if k not in drop}
DictWithout(d, drop) == [k \in (DOMAIN d) \ drop |-> d[k]]

PyNone == [type |-> "NoneType", fields |-> EmptyDict]

\* A str: on Python 3 a text, its characters the code points; on Python 2 a
\* byte string, its characters the bytes.
PyStr(s) == [type |-> "str", fields |-> [value |-> s]]

\* A Python 2 unicode text, its characters the code points.
PyUnicode(s) == [type |-> "unicode", fields |-> [value |-> s]]

\* The text bytes.decode gives: a unicode on Python 2, a str on Python 3.
PyText(python2, s) == IF python2 THEN PyUnicode(s) ELSE PyStr(s)

PyDict(d) == [type |-> "dict", fields |-> d]

\* PlaintextValue = namedtuple("PlaintextValue", ["plaintext"])
PlaintextValue(plaintext) ==
    [type |-> "PlaintextValue", fields |-> [plaintext |-> plaintext]]

\* EncryptedValue = namedtuple("EncryptedValue",
\*                             ["cyphertext_key", "cyphertext", "cyphertext_hmac"])
EncryptedValue(cyphertext_key, cyphertext, cyphertext_hmac) ==
    [type |-> "EncryptedValue",
     fields |-> [cyphertext_key |-> cyphertext_key,
                 cyphertext |-> cyphertext,
                 cyphertext_hmac |-> cyphertext_hmac]]

\* value_type._fields of the two namedtuples.
FieldsOf(type) ==
    IF type = "PlaintextValue" THEN {"plaintext"}
    ELSE IF type = "EncryptedValue"
         THEN {"cyphertext_key", "cyphertext", "cyphertext_hmac"}
    ELSE {}

\* ------------------------------------------------------------- encodings

\* Bitwise exclusive or of two naturals.
RECURSIVE Xor(_, _)
Xor(a, b) ==
    IF a = 0 /\ b = 0 THEN 0
    ELSE (((a % 2) + (b % 2)) % 2) + 2 * Xor(a \div 2, b \div 2)

\* A surrogate code point, U+D800 to U+DFFF.
IsSurrogate(c) == c >= 55296 /\ c < 57344

\* The UTF-8 bytes of one code point: [ok, bytes].  Python 3 refuses a
\* surrogate, Python 2 encodes it in three bytes.
Utf8Char(python2, c) ==
    [ok |-> python2 \/ ~IsSurrogate(c),
     bytes |->
        IF ~python2 /\ IsSurrogate(c) THEN <<>>
        ELSE IF c < 128 THEN <<c>>
        ELSE IF c < 2048 THEN <<192 + (c \div 64), 128 + (c % 64)>>
        ELSE IF c < 65536
             THEN <<224 + (c \div 4096), 128 + ((c \div 64) % 64), 128 + (c % 64)>>
        ELSE <<240 + (c \div 262144), 128 + ((c \div 4096) % 64),
               128 + ((c \div 64) % 64), 128 + (c % 64)>>]

\* The UTF-8 encoding of a text: [ok, exc, bytes]; ok is FALSE where Python
\* raises UnicodeEncodeError.
Utf8Encode(python2, text) ==
    IF \E i \in 1..Len(text) : ~Utf8Char(python2, text[i]).ok
    THEN [ok |-> FALSE, exc |-> "UnicodeEncodeError", bytes |-> <<>>]
    ELSE [ok |-> TRUE, exc |-> "",
          bytes |-> Flatten([i \in 1..Len(text) |-> Utf8Char(python2, text[i]).bytes])]

IsCont(b) == b >= 128 /\ b < 192

\* bytes.decode("utf-8"): [ok, text]; ok is FALSE where Python raises
\* UnicodeDecodeError (stray or missing continuation byte, overlong form,
\* surrogate, code point above U+10FFFF).  Python 2 decodes the three bytes
\* of a surrogate to the surrogate.
RECURSIVE Utf8Decode(_, _)
Utf8Decode(python2, bytes) ==
    IF bytes = <<>> THEN [ok |-> TRUE, text |-> <<>>]
    ELSE
    LET b == Head(bytes)
        n == IF b < 128 THEN 1
             ELSE IF b >= 194 /\ b < 224 THEN 2
             ELSE IF b >= 224 /\ b < 240 THEN 3
             ELSE IF b >= 240 /\ b < 245 THEN 4
             ELSE 0
        wellFormed == /\ n > 0
                      /\ Len(bytes) >= n
                      /\ \A i \in 2..n : IsCont(bytes[i])
        c == IF n = 1 THEN b
             ELSE IF n = 2 THEN (b - 192) * 64 + (bytes[2] - 128)
             ELSE IF n = 3
                  THEN (b - 224) * 4096 + (bytes[2] - 128) * 64 + (bytes[3] - 128)
             ELSE (b - 240) * 262144 + (bytes[2] - 128) * 4096
                  + (bytes[3] - 128) * 64 + (bytes[4] - 128)
        valid == /\ wellFormed
                 /\ (n = 3 => c >= 2048 /\ (python2 \/ ~IsSurrogate(c)))
                 /\ (n = 4 => c >= 65536 /\ c < 1114112)
    IN  IF ~valid THEN [ok |-> FALSE, text |-> <<>>]
        ELSE With(Utf8Decode(python2, Drop(bytes, n)),
                  LAMBDA rest : [ok |-> rest.ok,
                                 text |-> IF rest.ok THEN <<c>> \o rest.text ELSE <<>>])

\* The base64 alphabet: the character of a 6-bit value, and back.
B64Char(v) ==
    IF v < 26 THEN 65 + v
    ELSE IF v < 52 THEN 97 + (v - 26)
    ELSE IF v < 62 THEN 48 + (v - 52)
    ELSE IF v = 62 THEN 43
    ELSE 47

B64Value(ch) ==
    IF ch >= 65 /\ ch <= 90 THEN ch - 65
    ELSE IF ch >= 97 /\ ch <= 122 THEN ch - 97 + 26
    ELSE IF ch >= 48 /\ ch <= 57 THEN ch - 48 + 52
    ELSE IF ch = 43 THEN 62
    ELSE 63

\* Whether ch is a character of the base64 alphabet.
IsB64Char(ch) ==
    \/ ch >= 65 /\ ch <= 90
    \/ ch >= 97 /\ ch <= 122
    \/ ch >= 48 /\ ch <= 57
    \/ ch = 43
    \/ ch = 47

\* b64encode(bytes).decode('utf-8'): three bytes to four characters, the last
\* group padded with "=" (61).
RECURSIVE b64encode(_)
b64encode(bytes) ==
    IF bytes = <<>> THEN <<>>
    ELSE IF Len(bytes) = 1
         THEN <<B64Char(bytes[1] \div 4), B64Char((bytes[1] % 4) * 16), 61, 61>>
    ELSE IF Len(bytes) = 2
         THEN <<B64Char(bytes[1] \div 4),
                B64Char((bytes[1] % 4) * 16 + (bytes[2] \div 16)),
                B64Char((bytes[2] % 16) * 4), 61>>
    ELSE <<B64Char(bytes[1] \div 4),
           B64Char((bytes[1] % 4) * 16 + (bytes[2] \div 16)),
           B64Char((bytes[2] % 16) * 4 + (bytes[3] \div 64)),
           B64Char(bytes[3] % 64)>> \o b64encode(Drop(bytes, 3))

\* The decoder before the first character: no character of a group of four
\* read, no padding seen, nothing decoded.
B64Start == [quad |-> 0, pads |-> 0, left |-> 0, out |-> <<>>, done |-> FALSE]

\* The decoder after one more character (binascii.a2b_base64, not strict): a
\* character outside the alphabet is skipped; "=" is skipped unless it
\* completes a group of which at least two characters were read, which ends
\* the decoding; a character of the alphabet adds its six bits.
B64Step(st, ch) ==
    IF st.done THEN st
    ELSE IF ch = 61
         THEN IF st.quad >= 2
              THEN [st EXCEPT !.pads = st.pads + 1,
                              !.done = st.quad + st.pads + 1 >= 4]
              ELSE st
    ELSE IF ~IsB64Char(ch) THEN st
    ELSE IF st.quad = 0
         THEN [st EXCEPT !.quad = 1, !.pads = 0, !.left = B64Value(ch)]
    ELSE IF st.quad = 1
         THEN [st EXCEPT !.quad = 2, !.pads = 0, !.left = B64Value(ch) % 16,
                         !.out = Append(st.out, st.left * 4 + (B64Value(ch) \div 16))]
    ELSE IF st.quad = 2
         THEN [st EXCEPT !.quad = 3, !.pads = 0, !.left = B64Value(ch) % 4,
                         !.out = Append(st.out, st.left * 16 + (B64Value(ch) \div 4))]
    ELSE [st EXCEPT !.quad = 0, !.pads = 0, !.left = 0,
                    !.out = Append(st.out, st.left * 64 + B64Value(ch))]

\* The decoder after characters lo..hi of the text.
RECURSIVE B64Scan(_, _, _, _)
B64Scan(st, text, lo, hi) ==
    IF lo > hi THEN st
    ELSE IF lo = hi THEN B64Step(st, text[lo])
    ELSE With(B64Scan(st, text, lo, (lo + hi) \div 2), LAMBDA st2 :
              B64Scan(st2, text, ((lo + hi) \div 2) + 1, hi))

\* base64.b64decode(text) of a text (str in Python 3, unicode in Python 2, as
\* encrypt returns it and the table delivers it): [ok, exc, bytes].  A
\* character that is not ASCII raises ValueError, in Python 2
\* UnicodeEncodeError; a text that ends inside a group of four raises
\* binascii.Error, which Python 2's b64decode turns into TypeError.
b64decode(python2, text) ==
    IF \E i \in 1..Len(text) : text[i] > 127
    THEN [ok |-> FALSE,
          exc |-> IF python2 THEN "UnicodeEncodeError" ELSE "ValueError",
          bytes |-> <<>>]
    ELSE With(B64Scan(B64Start, text, 1, Len(text)), LAMBDA st :
         IF ~st.done /\ st.quad # 0
         THEN [ok |-> FALSE,
               exc |-> IF python2 THEN "TypeError" ELSE "Error",
               bytes |-> <<>>]
         ELSE [ok |-> TRUE, exc |-> "", bytes |-> st.out])

HexChar(n) == IF n < 10 THEN 48 + n ELSE 87 + n

\* hexdigest(): two lower-case hexadecimal digits a byte.
HexDigest(bytes) ==
    Flatten([i \in 1..Len(bytes) |-> <<HexChar(bytes[i] \div 16), HexChar(bytes[i] % 16)>>])

\* ------------------------------------------------------- cipher and hash

\* Counter.new(128) starts at PyCrypto's default initial_value.
CounterInitial == 1

\* SHA256.digest_size
DigestSize == 32

BlockBytes == CounterBits \div 8

\* Bitwise and of two naturals.
RECURSIVE And(_, _)
And(a, b) ==
    IF a = 0 \/ b = 0 THEN 0
    ELSE ((a % 2) * (b % 2)) + 2 * And(a \div 2, b \div 2)

\* Exclusive or and and of two bytes, tabulated: entry [a + 1][b + 1].
XorNibbleTable == [a \in 1..16 |-> [b \in 1..16 |-> Xor(a - 1, b - 1)] \o <<>>] \o <<>>

AndNibbleTable == [a \in 1..16 |-> [b \in 1..16 |-> And(a - 1, b - 1)] \o <<>>] \o <<>>

XorByteTable ==
    [a \in 1..256 |->
        [b \in 1..256 |->
            16 * XorNibbleTable[((a - 1) \div 16) + 1][((b - 1) \div 16) + 1]
            + XorNibbleTable[((a - 1) % 16) + 1][((b - 1) % 16) + 1]] \o <<>>] \o <<>>

AndByteTable ==
    [a \in 1..256 |->
        [b \in 1..256 |->
            16 * AndNibbleTable[((a - 1) \div 16) + 1][((b - 1) \div 16) + 1]
            + AndNibbleTable[((a - 1) % 16) + 1][((b - 1) % 16) + 1]] \o <<>>] \o <<>>

XorByte(a, b) == XorByteTable[a + 1][b + 1]

AndByte(a, b) == AndByteTable[a + 1][b + 1]

XorBytes(x, y) == [i \in 1..Len(x) |-> XorByte(x[i], y[i])] \o <<>>

\* ---- SHA-256 (FIPS 180-4).  A 32-bit word is <<high 16 bits, low 16 bits>>.

Xor16(a, b) == 256 * XorByte(a \div 256, b \div 256) + XorByte(a % 256, b % 256)

And16(a, b) == 256 * AndByte(a \div 256, b \div 256) + AndByte(a % 256, b % 256)

WordXor(x, y) == <<Xor16(x[1], y[1]), Xor16(x[2], y[2])>>

WordAnd(x, y) == <<And16(x[1], y[1]), And16(x[2], y[2])>>

WordNot(x) == <<65535 - x[1], 65535 - x[2]>>

\* Addition modulo 2^32.
WordAdd(x, y) ==
    <<(x[1] + y[1] + ((x[2] + y[2]) \div 65536)) % 65536, (x[2] + y[2]) % 65536>>

\* Rotation and shift to the right by n bits, 0 <= n < 16.
RotR16(x, n) ==
    <<(x[1] \div (2 ^ n)) + (x[2] % (2 ^ n)) * (2 ^ (16 - n)),
      (x[2] \div (2 ^ n)) + (x[1] % (2 ^ n)) * (2 ^ (16 - n))>>

\* Rotation to the right by n bits, 0 <= n < 32.
RotR(x, n) == IF n >= 16 THEN RotR16(<<x[2], x[1]>>, n - 16) ELSE RotR16(x, n)

ShR(x, n) ==
    <<x[1] \div (2 ^ n), (x[2] \div (2 ^ n)) + (x[1] % (2 ^ n)) * (2 ^ (16 - n))>>

Ch(x, y, z) == WordXor(WordAnd(x, y), WordAnd(WordNot(x), z))

Maj(x, y, z) == WordXor(WordXor(WordAnd(x, y), WordAnd(x, z)), WordAnd(y, z))

BigSigma0(x) == WordXor(WordXor(RotR(x, 2), RotR(x, 13)), RotR(x, 22))

BigSigma1(x) == WordXor(WordXor(RotR(x, 6), RotR(x, 11)), RotR(x, 25))

SmallSigma0(x) == WordXor(WordXor(RotR(x, 7), RotR(x, 18)), ShR(x, 3))

SmallSigma1(x) == WordXor(WordXor(RotR(x, 17), RotR(x, 19)), ShR(x, 10))

\* The round constants of SHA-256.
SHA256_K ==
  <<
    <<17034, 12184>>, <<28983, 17553>>, <<46528, 64463>>, <<59829, 56229>>,
    <<14678, 49755>>, <<23025, 4593>>, <<37439, 33444>>, <<43804, 24277>>,
    <<55303, 43672>>, <<4739, 23297>>, <<9265, 34238>>, <<21772, 32195>>,
    <<29374, 23924>>, <<32990, 45566>>, <<39900, 1703>>, <<49563, 61812>>,
    <<58523, 27073>>, <<61374, 18310>>, <<4033, 40390>>, <<9228, 41420>>,
    <<11753, 11375>>, <<19060, 33962>>, <<23728, 43484>>, <<30457, 35034>>,
    <<38974, 20818>>, <<43057, 50797>>, <<45059, 10184>>, <<48985, 32711>>,
    <<50912, 3059>>, <<54695, 37191>>, <<1738, 25425>>, <<5161, 10599>>,
    <<10167, 2693>>, <<11803, 8504>>, <<19756, 28156>>, <<21304, 3347>>,
    <<25866, 29524>>, <<30314, 2747>>, <<33218, 51502>>, <<37490, 11397>>,
    <<41663, 59553>>, <<43034, 26187>>, <<49739, 35696>>, <<51052, 20899>>,
    <<53650, 59417>>, <<54937, 1572>>, <<62478, 13701>>, <<4202, 41072>>,
    <<6564, 49430>>, <<7735, 27656>>, <<10056, 30540>>, <<13488, 48309>>,
    <<14620, 3251>>, <<20184, 43594>>, <<23452, 51791>>, <<26670, 28659>>,
    <<29839, 33518>>, <<30885, 25455>>, <<33992, 30740>>, <<36039, 520>>,
    <<37054, 65530>>, <<42064, 27883>>, <<48889, 41975>>, <<50801, 30962>>
  >>

\* The initial hash value of SHA-256.
SHA256_H0 ==
  <<
    <<27145, 58983>>, <<47975, 44677>>, <<15470, 62322>>, <<42319, 62778>>,
    <<20750, 21119>>, <<39685, 26764>>, <<8067, 55723>>, <<23520, 52505>>
  >>

\* The substitution box of AES: entry [b + 1] for byte b.
AES_SBOX ==
  <<
    99, 124, 119, 123, 242, 107, 111, 197, 48, 1, 103, 43, 254, 215, 171, 118,
    202, 130, 201, 125, 250, 89, 71, 240, 173, 212, 162, 175, 156, 164, 114, 192,
    183, 253, 147, 38, 54, 63, 247, 204, 52, 165, 229, 241, 113, 216, 49, 21,
    4, 199, 35, 195, 24, 150, 5, 154, 7, 18, 128, 226, 235, 39, 178, 117,
    9, 131, 44, 26, 27, 110, 90, 160, 82, 59, 214, 179, 41, 227, 47, 132,
    83, 209, 0, 237, 32, 252, 177, 91, 106, 203, 190, 57, 74, 76, 88, 207,
    208, 239, 170, 251, 67, 77, 51, 133, 69, 249, 2, 127, 80, 60, 159, 168,
    81, 163, 64, 143, 146, 157, 56, 245, 188, 182, 218, 33, 16, 255, 243, 210,
    205, 12, 19, 236, 95, 151, 68, 23, 196, 167, 126, 61, 100, 93, 25, 115,
    96, 129, 79, 220, 34, 42, 144, 136, 70, 238, 184, 20, 222, 94, 11, 219,
    224, 50, 58, 10, 73, 6, 36, 92, 194, 211, 172, 98, 145, 149, 228, 121,
    231, 200, 55, 109, 141, 213, 78, 169, 108, 86, 244, 234, 101, 122, 174, 8,
    186, 120, 37, 46, 28, 166, 180, 198, 232, 221, 116, 31, 75, 189, 139, 138,
    112, 62, 181, 102, 72, 3, 246, 14, 97, 53, 87, 185, 134, 193, 29, 158,
    225, 248, 152, 17, 105, 217, 142, 148, 155, 30, 135, 233, 206, 85, 40, 223,
    140, 161, 137, 13, 191, 230, 66, 104, 65, 153, 45, 15, 176, 84, 187, 22
  >>

\* The message schedule extended by n more words.
RECURSIVE Sha256Extend(_, _)
Sha256Extend(w, n) ==
    IF n = 1
    THEN Append(w, WordAdd(WordAdd(SmallSigma1(w[Len(w) - 1]), w[Len(w) - 6]),
                           WordAdd(SmallSigma0(w[Len(w) - 14]), w[Len(w) - 15])))
    ELSE With(Sha256Extend(w, n \div 2), LAMBDA w2 : Sha256Extend(w2, n - (n \div 2)))

\* The message schedule: the 16 words of a block extended to 64.
Sha256Schedule(m) == Sha256Extend(m, 48)

\* One round on the working variables <<a, b, c, d, e, f, g, h>>.
Sha256Round(s, k, w) ==
    With(WordAdd(WordAdd(WordAdd(s[8], BigSigma1(s[5])), Ch(s[5], s[6], s[7])),
                 WordAdd(k, w)), LAMBDA t1 :
    With(WordAdd(BigSigma0(s[1]), Maj(s[1], s[2], s[3])), LAMBDA t2 :
         <<WordAdd(t1, t2), s[1], s[2], s[3], WordAdd(s[4], t1), s[5], s[6], s[7]>>))

\* Rounds lo..hi in order.
RECURSIVE Sha256Rounds(_, _, _, _)
Sha256Rounds(s, w, lo, hi) ==
    IF lo = hi THEN Sha256Round(s, SHA256_K[lo], w[lo])
    ELSE With(Sha256Rounds(s, w, lo, (lo + hi) \div 2), LAMBDA s2 :
              Sha256Rounds(s2, w, ((lo + hi) \div 2) + 1, hi))

\* The hash value after one more 64-byte block.
Sha256Compress(h, block) ==
    With([i \in 1..16 |-> <<block[4 * i - 3] * 256 + block[4 * i - 2],
                            block[4 * i - 1] * 256 + block[4 * i]>>] \o <<>>, LAMBDA m :
    With(Sha256Schedule(m), LAMBDA w :
    With(Sha256Rounds(h, w, 1, 64), LAMBDA s :
         [i \in 1..8 |-> WordAdd(h[i], s[i])] \o <<>>)))

\* The message, a 1 bit, zero bits up to 56 modulo 64 bytes, and the length in
\* bits as 8 bytes (messages shorter than 2^28 bytes).
Sha256Pad(msg) ==
    msg \o <<128>>
        \o [i \in 1..((64 - ((Len(msg) + 9) % 64)) % 64) |-> 0]
        \o <<0, 0, 0, 0,
             ((8 * Len(msg)) \div 16777216) % 256, ((8 * Len(msg)) \div 65536) % 256,
             ((8 * Len(msg)) \div 256) % 256, (8 * Len(msg)) % 256>>

RECURSIVE Sha256Blocks(_, _)
Sha256Blocks(h, data) ==
    IF data = <<>> THEN h
    ELSE With(Sha256Compress(h, Take(data, 64)), LAMBDA h2 :
         With(Drop(data, 64), LAMBDA rest : Sha256Blocks(h2, rest)))

\* SHA256.new(msg).digest()
Sha256(msg) ==
    With(Sha256Blocks(SHA256_H0, Sha256Pad(msg)), LAMBDA h :
         Flatten([i \in 1..8 |-> <<h[i][1] \div 256, h[i][1] % 256,
                                   h[i][2] \div 256, h[i][2] % 256>>]))

\* The key of an HMAC as one 64-byte block: hashed when longer, then
\* zero-filled (RFC 2104).
HmacKeyBlock(key) ==
    With(IF Len(key) > 64 THEN Sha256(key) ELSE key, LAMBDA k :
         k \o [i \in 1..(64 - Len(k)) |-> 0])

\* HMAC-SHA256 of msg under key.
HmacSha256(key, msg) ==
    With(HmacKeyBlock(key), LAMBDA kb :
    With(Sha256([i \in 1..64 |-> XorByte(kb[i], 54)] \o msg), LAMBDA inner :
         Sha256([i \in 1..64 |-> XorByte(kb[i], 92)] \o inner)))

\* ---- AES-256 (FIPS 197).  The state and the round keys are 16 bytes in
\* input order (column by column).

\* Multiplication by x in GF(2^8).
AesXtime(b) == IF b < 128 THEN 2 * b ELSE XorByte((2 * b) % 256, 27)

AesSubBytes(s) == [i \in 1..Len(s) |-> AES_SBOX[s[i] + 1]] \o <<>>

\* Row r of the state moves r columns to the left.
AesShiftRows(s) ==
    [i \in 1..16 |->
        s[((i - 1) % 4) + 4 * ((((i - 1) \div 4) + ((i - 1) % 4)) % 4) + 1]] \o <<>>

AesMixColumn(a) ==
    <<XorByte(XorByte(AesXtime(a[1]), XorByte(AesXtime(a[2]), a[2])), XorByte(a[3], a[4])),
      XorByte(XorByte(a[1], AesXtime(a[2])), XorByte(XorByte(AesXtime(a[3]), a[3]), a[4])),
      XorByte(XorByte(a[1], a[2]), XorByte(AesXtime(a[3]), XorByte(AesXtime(a[4]), a[4]))),
      XorByte(XorByte(XorByte(AesXtime(a[1]), a[1]), a[2]), XorByte(a[3], AesXtime(a[4])))>>

AesMixColumns(s) == Flatten([c \in 1..4 |-> AesMixColumn(SubSeq(s, 4 * c - 3, 4 * c))])

\* The next word of the key schedule of a 32-byte key.
AesNextWord(ws) ==
    With(ws[Len(ws)], LAMBDA prev :
    With(IF Len(ws) % 8 = 0
         THEN XorBytes(AesSubBytes(<<prev[2], prev[3], prev[4], prev[1]>>),
                       <<2 ^ ((Len(ws) \div 8) - 1), 0, 0, 0>>)
         ELSE IF Len(ws) % 8 = 4 THEN AesSubBytes(prev)
         ELSE prev, LAMBDA temp :
         XorBytes(ws[Len(ws) - 7], temp)))

\* The key schedule extended by n more words.
RECURSIVE AesExtend(_, _)
AesExtend(ws, n) ==
    IF n = 1 THEN Append(ws, AesNextWord(ws))
    ELSE With(AesExtend(ws, n \div 2), LAMBDA ws2 : AesExtend(ws2, n - (n \div 2)))

\* The key schedule of a 32-byte key: its 8 words extended to 60.
AesExpand(key) == AesExtend([i \in 1..8 |-> SubSeq(key, 4 * i - 3, 4 * i)] \o <<>>, 52)

AesRoundKey(ws, r) == ws[4 * r + 1] \o ws[4 * r + 2] \o ws[4 * r + 3] \o ws[4 * r + 4]

\* Rounds lo..hi in order, each with MixColumns.
RECURSIVE AesRounds(_, _, _, _)
AesRounds(s, ws, lo, hi) ==
    IF lo = hi
    THEN XorBytes(AesMixColumns(AesShiftRows(AesSubBytes(s))), AesRoundKey(ws, lo))
    ELSE With(AesRounds(s, ws, lo, (lo + hi) \div 2), LAMBDA s2 :
              AesRounds(s2, ws, ((lo + hi) \div 2) + 1, hi))

\* The AES-256 encryption of one 16-byte block: the initial round key, 13
\* full rounds, and a last round without MixColumns.
AesEncryptBlock(key, block) ==
    With(AesExpand(key), LAMBDA ws :
    With(AesRounds(XorBytes(block, AesRoundKey(ws, 0)), ws, 1, 13), LAMBDA s :
         XorBytes(AesShiftRows(AesSubBytes(s)), AesRoundKey(ws, 14))))

\* The counter block of Counter.new(128): the counter value as 16 bytes, most
\* significant first (values below 2^31).
CounterBlock(ctr) ==
    [i \in 1..BlockBytes |->
        IF i <= BlockBytes - 4 THEN 0 ELSE (ctr \div (256 ^ (BlockBytes - i))) % 256] \o <<>>

\* ------------------------------------------------------ key management

\* `if not context: context = {}`: None and the empty dict become {}.
NormalizeContext(context) ==
    IF context.type = "NoneType" \/ DOMAIN context.fields = {}
    THEN EmptyDict
    ELSE context.fields

\* The bytes of an encryption context, keys in ascending order (what the key
\* service binds a wrapped key to).
ContextBytes(ctx) ==
    LET keys == SortStrs(DOMAIN ctx)
    IN  Flatten([i \in 1..Len(keys) |-> keys[i] \o <<0>> \o ctx[keys[i]] \o <<0>>])

\* The 64 bytes of key material of the k-th generate_data_key answer:
\* different for different k, in both halves.
KmsMaterial(k) == [i \in 1..NumberOfBytes |-> (53 * k + 29 * i) % 256] \o <<>>

\* The CiphertextBlob of the k-th answer: the material wrapped under the
\* master key and bound to the encryption context.  The blob names k and
\* carries the context it is bound to.
KmsWrap(k, ctx) == <<k>> \o ContextBytes(ctx)

\* kms.generate_data_key(KeyId=..., EncryptionContext=ctx, NumberOfBytes=64)
\* as the k-th request.
KmsGenerateDataKey(k, ctx) ==
    [Plaintext |-> KmsMaterial(k), CiphertextBlob |-> KmsWrap(k, ctx)]

\* The key service as a call sees it: `issued` data keys have been generated,
\* and the requests about the keys in `failing` fail in transit or in the
\* service (the botocore error is raised by the client call).
KmsState(issued, failing) == [issued |-> issued, failing |-> failing]

\* kms.generate_data_key(...) as a request to the service in state kms: the
\* answer with the next key, or the error the client raises.
KmsGenerate(kms, ctx) ==
    IF (kms.issued + 1) \in kms.failing
    THEN [ok |-> FALSE, exc |-> "KMSInternalException",
          Plaintext |-> <<>>, CiphertextBlob |-> <<>>]
    ELSE With(KmsGenerateDataKey(kms.issued + 1, ctx), LAMBDA answer :
             [ok |-> TRUE, exc |-> "",
              Plaintext |-> answer.Plaintext, CiphertextBlob |-> answer.CiphertextBlob])

\* kms.decrypt(CiphertextBlob=blob, EncryptionContext=ctx) with the service in
\* state kms: the material of the key the blob wraps when the blob is one the
\* service made and ctx is the context it is bound to; otherwise the service
\* refuses (InvalidCiphertextException).  A request about a failing key
\* raises the service error.
KmsDecrypt(kms, wrapped, ctx) ==
    With(wrapped, LAMBDA blob :
    IF Len(blob) >= 1 /\ blob[1] \in kms.failing
    THEN [ok |-> FALSE, exc |-> "KMSInternalException", Plaintext |-> <<>>]
    ELSE
    IF /\ Len(blob) >= 1
       /\ blob[1] \in 1..kms.issued
       /\ Drop(blob, 1) = ContextBytes(ctx)
    THEN [ok |-> TRUE, exc |-> "", Plaintext |-> KmsMaterial(blob[1])]
    ELSE [ok |-> FALSE, exc |-> "InvalidCiphertextException", Plaintext |-> <<>>])

\* ----------------------------------------- the cipher and the tag in use

\* Plaintexts: "v" and "é" (two bytes in UTF-8).
Plaintexts == {<<118>>, <<233>>}

\* The plaintexts callers give to encrypt.  On Python 3 the str "v", "é" and
\* a lone surrogate; on Python 2 the byte strings 'v', 'é' (its two UTF-8
\* bytes) and '\xff', and the unicode texts u'vv' and u'é'.
EncryptPlaintexts(python2) ==
    IF python2
    THEN {PyStr(<<118>>), PyStr(<<195, 169>>), PyStr(<<255>>),
          PyUnicode(<<118, 118>>), PyUnicode(<<233>>)}
    ELSE {PyStr(<<118>>), PyStr(<<233>>), PyStr(<<55296>>)}

\* What encryptor.encrypt(plaintext) reads of its argument: [ok, exc, bytes].
\* The bytes of a Python 2 byte string as they are; a Python 2 unicode text
\* in the default encoding, ASCII; a Python 3 str in UTF-8.
encryptor_argument(python2, plaintext) ==
    IF python2 /\ plaintext.type = "str"
    THEN [ok |-> TRUE, exc |-> "", bytes |-> plaintext.fields.value]
    ELSE IF python2
    THEN IF \E i \in 1..Len(plaintext.fields.value) : plaintext.fields.value[i] > 127
         THEN [ok |-> FALSE, exc |-> "UnicodeEncodeError", bytes |-> <<>>]
         ELSE [ok |-> TRUE, exc |-> "", bytes |-> plaintext.fields.value]
    ELSE Utf8Encode(python2, plaintext.fields.value)

\* The byte strings the cipher reads of those plaintexts.
PlaintextBytes ==
    UNION {{encryptor_argument(python2, p).bytes :
                p \in {q \in EncryptPlaintexts(python2) :
                          encryptor_argument(python2, q).ok}} :
           python2 \in BOOLEAN}

\* A base64 text with its first character replaced by another character of
\* the alphabet.
TamperText(text) == [text EXCEPT ![1] = IF @ = 65 THEN 66 ELSE 65]

\* The first counter block under each data key the key service hands out,
\* computed once.
AesBlockTable ==
    {[key |-> Take(KmsMaterial(k), KeySplit),
      block |-> AesEncryptBlock(Take(KmsMaterial(k), KeySplit),
                                CounterBlock(CounterInitial))] : k \in 1..MaxKeys}

\* The 16 bytes the block cipher yields for counter value ctr under a
\* 32-byte key (read from the table where it holds them).
AesBlock(key, ctr) ==
    IF ctr = CounterInitial /\ \E m \in AesBlockTable : m.key = key
    THEN (CHOOSE m \in AesBlockTable : m.key = key).block
    ELSE AesEncryptBlock(key, CounterBlock(ctr))

\* AES.new(key, AES.MODE_CTR, counter=ctr).encrypt(data), and .decrypt(data):
\* byte i of the data is xor-ed with byte i of the keystream, the block
\* function applied to successive counter values from `initial`.
AesCtr(key, initial, data) ==
    [i \in 1..Len(data) |->
        XorByte(data[i],
                AesBlock(key, initial + ((i - 1) \div BlockBytes))[((i - 1) % BlockBytes) + 1])]
    \o <<>>

\* The ciphertexts of the plaintexts under data key k, and the bytes of
\* their base64 texts with the first character changed (a text that decodes
\* gives the same bytes on either interpreter).
CipherTexts(k) ==
    UNION {{AesCtr(Take(KmsMaterial(k), KeySplit), CounterInitial, data),
            b64decode(FALSE, TamperText(b64encode(
                AesCtr(Take(KmsMaterial(k), KeySplit), CounterInitial,
                       data)))).bytes} : data \in PlaintextBytes}

\* The tags of those ciphertexts under the authentication key of the same
\* key material, computed once.
HmacTable ==
    UNION {{[key |-> Drop(KmsMaterial(k), KeySplit), msg |-> c,
             digest |-> HmacSha256(Drop(KmsMaterial(k), KeySplit), c)] :
                c \in CipherTexts(k)} : k \in 1..MaxKeys}

\* HMAC(hmac_key, msg=..., digestmod=SHA256).digest() (read from the table
\* where it holds the tag).
HmacDigest(hmac_key, msg) ==
    IF \E m \in HmacTable : m.key = hmac_key /\ m.msg = msg
    THEN (CHOOSE m \in HmacTable : m.key = hmac_key /\ m.msg = msg).digest
    ELSE HmacSha256(hmac_key, msg)

\* HMAC(...).hexdigest()
HmacHex(hmac_key, msg) == HexDigest(HmacDigest(hmac_key, msg))

\* ----------------------------------------------------- operation results

\* What a call gave back: a returned value (`value`, or `config` for the
\* loader call) or a raised exception.
Returned(value) ==
    [outcome |-> "return", exc |-> "", value |-> value, config |-> EmptyDict]

ReturnedConfig(config) ==
    [outcome |-> "return", exc |-> "", value |-> PyNone, config |-> config]

Raised(exc) ==
    [outcome |-> "raise", exc |-> exc, value |-> PyNone, config |-> EmptyDict]

\* ------------------------------------------- EncryptedDynamoDBLoader crypto

\* Variant: the data key of the first request is kept and used again.
encrypt_data_key_cached(material) == Take(KmsMaterial(1), KeySplit)

\* data_key = kms_response['Plaintext'][:32]
encrypt_data_key(material) == Take(material, KeySplit)

\* hmac_key = kms_response['Plaintext'][32:]
encrypt_hmac_key(material) == Drop(material, KeySplit)

\* EncryptedDynamoDBLoader.encrypt after the key service answered: the
\* EncryptedValue built from the plaintext and the answer is returned, or the
\* cipher refuses the plaintext.
encrypt(python2, plaintext, kms_response) ==
    With(encrypt_data_key(kms_response.Plaintext), LAMBDA data_key :
    With(encrypt_hmac_key(kms_response.Plaintext), LAMBDA hmac_key :
    With(kms_response.CiphertextBlob, LAMBDA wrapped_key :
    With(encryptor_argument(python2, plaintext), LAMBDA data :
    IF ~data.ok THEN Raised(data.exc)
    ELSE
    With(AesCtr(data_key, CounterInitial, data.bytes), LAMBDA c_text :
    With(HmacHex(hmac_key, c_text), LAMBDA b64hmac :
        Returned(EncryptedValue(b64encode(wrapped_key), b64encode(c_text),
                                b64hmac))))))))

\* Variant: a failed generate_data_key request is made a second time.
encrypt_request_retrying(python2, kms, plaintext, context) ==
    With(KmsGenerate(kms, NormalizeContext(context)), LAMBDA kms_response :
    IF ~kms_response.ok
    THEN [result |-> Raised(kms_response.exc), kms |-> 2, issued |-> kms.issued]
    ELSE [result |-> encrypt(python2, plaintext, kms_response),
          kms |-> 1, issued |-> kms.issued + 1])

\* EncryptedDynamoDBLoader.encrypt(plaintext, context) with the key service
\* in state kms: [result, kms, issued].  The one generate_data_key request is
\* not guarded: its error is the error of the call.  A key the service issued
\* stays issued when the cipher then refuses the plaintext.
encrypt_request(python2, kms, plaintext, context) ==
    With(KmsGenerate(kms, NormalizeContext(context)), LAMBDA kms_response :
    IF ~kms_response.ok
    THEN [result |-> Raised(kms_response.exc), kms |-> 1, issued |-> kms.issued]
    ELSE [result |-> encrypt(python2, plaintext, kms_response),
          kms |-> 1, issued |-> kms.issued + 1])

\* Variant: the cipher key is taken from the other half of the material.
decrypt_key_other_half(material) == Drop(material, KeySplit)

\* key = kms_response['Plaintext'][:32]
decrypt_key(material) == Take(material, KeySplit)

\* hmac_key = kms_response['Plaintext'][32:]
decrypt_hmac_key(material) == Drop(material, KeySplit)

\* Variant: the comparison of the tags is left out.
hmac_mismatch_unchecked(computed, stored) == FALSE

\* `if hmac.hexdigest() != value.cyphertext_hmac: raise ...`
hmac_mismatch(computed, stored) == computed # stored

\* EncryptedDynamoDBLoader.decrypt(value, context) with the key service in
\* state kms: [result, kms, cipher] where kms counts the key service requests
\* made and cipher the calls of decryptor.decrypt.  A wrapped key that does
\* not decode raises before the request, a ciphertext that does not decode
\* after it.
decrypt(python2, kms, value, context) ==
    With(b64decode(python2, value.fields.cyphertext_key), LAMBDA blob :
    IF ~blob.ok
    THEN [result |-> Raised(blob.exc), kms |-> 0, cipher |-> 0]
    ELSE
    With(KmsDecrypt(kms, blob.bytes, NormalizeContext(context)), LAMBDA kms_response :
    IF ~kms_response.ok
    THEN [result |-> Raised(kms_response.exc), kms |-> 1, cipher |-> 0]
    ELSE
    With(decrypt_key(kms_response.Plaintext), LAMBDA key :
    With(decrypt_hmac_key(kms_response.Plaintext), LAMBDA hmac_key :
    With(b64decode(python2, value.fields.cyphertext), LAMBDA c_text :
    IF ~c_text.ok
    THEN [result |-> Raised(c_text.exc), kms |-> 1, cipher |-> 0]
    ELSE
    IF hmac_mismatch(HmacHex(hmac_key, c_text.bytes), value.fields.cyphertext_hmac)
    THEN [result |-> Raised("Exception: Computed HMAC does not match stored HMAC"),
          kms |-> 1, cipher |-> 0]
    ELSE
    With(Utf8Decode(python2, AesCtr(key, CounterInitial, c_text.bytes)), LAMBDA decoded :
    IF ~decoded.ok
    THEN [result |-> Raised("UnicodeDecodeError"), kms |-> 1, cipher |-> 1]
    ELSE [result |-> Returned(PyText(python2, decoded.text)),
          kms |-> 1, cipher |-> 1]))))))

\* ------------------------------------------------------------ the table

\* The table is a function from the keys <<service, name>> of its rows to the
\* rows; a row is a dict from attribute names to strings.
RowKey(item) == <<item[SERVICE_NAME], item[CONFIG_NAME]>>

\* table.put_item(Item=item): the row with the item's key is created or
\* replaced whole.
put_item(tbl, item) ==
    With(RowKey(item), LAMBDA key :
        [k \in (DOMAIN tbl) \cup {key} |-> IF k = key THEN item ELSE tbl[k]])

\* table.get_item(Key=...) when the table answers: the response, with "Item"
\* only when the row exists.
get_item(tbl, service, name) ==
    IF <<service, name>> \in DOMAIN tbl
    THEN [raised |-> FALSE, exc |-> "", hasItem |-> TRUE, Item |-> tbl[<<service, name>>]]
    ELSE [raised |-> FALSE, exc |-> "", hasItem |-> FALSE, Item |-> EmptyDict]

\* table.get_item(Key=...) when the round trip fails: the client call raises
\* and there is no response.
get_item_failed ==
    [raised |-> TRUE, exc |-> "ClientError", hasItem |-> FALSE, Item |-> EmptyDict]

\* table.delete_item(Key=...): the row is removed if there is one.
delete_item(tbl, service, name) ==
    [k \in (DOMAIN tbl) \ {<<service, name>>} |-> tbl[k]]

\* Variant: the key condition is left out.
query_keys_all(tbl, service) == DOMAIN tbl

\* KeyConditionExpression=Key(SERVICE_NAME).eq(service): the keys a query for
\* `service` selects.
query_keys(tbl, service) == {k \in DOMAIN tbl : k[1] = service}

\* ProjectionExpression: the attributes of a row that are in `attrs`.
Project(row, attrs) == [a \in (DOMAIN row) \cap attrs |-> row[a]]

\* table.query(Select="SPECIFIC_ATTRIBUTES", ProjectionExpression=...,
\* ConsistentRead=True, KeyConditionExpression=...)["Items"]: the rows of the
\* service in ascending order of the sort key, projected.
query(tbl, service, attrs) ==
    With(SortStrs({k[2] : k \in query_keys(tbl, service)}), LAMBDA names :
        [i \in 1..Len(names) |->
            Project(tbl[CHOOSE k \in query_keys(tbl, service) : k[2] = names[i]],
                    attrs)] \o <<>>)

\* One round trip to the table, as recorded in tableCalls.
TableCall(op, service, name) == [op |-> op, service |-> service, name |-> name]

\* ----------------------------------------------------------- DynamoDBLoader

\* The value_type property of the two loaders.
value_type(loaderClass) ==
    IF loaderClass = "EncryptedDynamoDBLoader" THEN "EncryptedValue" ELSE "PlaintextValue"

\* self.value_type(**kwargs): the namedtuple when the keywords are exactly its
\* fields, TypeError otherwise.
NewValue(type, kwargs) ==
    IF DOMAIN kwargs = FieldsOf(type)
    THEN Returned([type |-> type, fields |-> kwargs])
    ELSE Raised("TypeError")

\* Variant: any namedtuple value type is accepted.
put_isinstance_any_value_type(value, type) == FieldsOf(value.type) # {}

\* isinstance(value, self.value_type)
put_isinstance(value, type) == value.type = type

\* vars(value): the fields of a namedtuple as a dict where namedtuple
\* instances have __dict__ (hasDict); TypeError where they have none, and for
\* a str.
Vars(value, hasDict) ==
    IF hasDict /\ FieldsOf(value.type) # {}
    THEN [ok |-> TRUE, dict |-> value.fields]
    ELSE [ok |-> FALSE, dict |-> EmptyDict]

\* Variant: the item is not updated with the fields of the value.
put_item_of_keys_only(service, name, fields) ==
    (SERVICE_NAME :> service) @@ (CONFIG_NAME :> name)

\* The item put() builds: the two key attributes, updated with vars(value).
put_item_of(service, name, fields) ==
    DictUpdate((SERVICE_NAME :> service) @@ (CONFIG_NAME :> name), fields)

\* DynamoDBLoader.put(service, name, value): [result, table, calls].
put(loaderClass, hasDict, tbl, service, name, value) ==
    IF ~put_isinstance(value, value_type(loaderClass))
    THEN [result |-> Raised("Exception: Expected value to be an instance of"),
          table |-> tbl, calls |-> <<>>]
    ELSE With(Vars(value, hasDict), LAMBDA v :
         IF ~v.ok
         THEN [result |-> Raised("TypeError"), table |-> tbl, calls |-> <<>>]
         ELSE [result |-> Returned(PyNone),
               table |-> put_item(tbl, put_item_of(service, name, v.dict)),
               calls |-> <<TableCall("put_item", service, name)>>])

\* What get() returns for the item found: the value type built from the
\* attributes that are not key attributes.
get_return(loaderClass, item) ==
    NewValue(value_type(loaderClass), DictWithout(item, {SERVICE_NAME, CONFIG_NAME}))

\* Variant: a failed round trip is taken for a response without an item.
get_of_failure_as_absent(loaderClass, response, service, name) ==
    [result |-> IF response.raised \/ ~response.hasItem THEN Returned(PyNone)
                ELSE get_return(loaderClass, response.Item),
     calls |-> <<TableCall("get_item", service, name)>>]

\* DynamoDBLoader.get(service, name) given how its get_item call ended:
\* [result, calls].  The call is not guarded, so what it raises is raised by
\* get; None is returned for a response without "Item".
get_of(loaderClass, response, service, name) ==
    [result |-> IF response.raised THEN Raised(response.exc)
                ELSE IF ~response.hasItem THEN Returned(PyNone)
                ELSE get_return(loaderClass, response.Item),
     calls |-> <<TableCall("get_item", service, name)>>]

\* DynamoDBLoader.get(service, name) on a table that answers: [result, calls].
get(loaderClass, tbl, service, name) ==
    get_of(loaderClass, get_item(tbl, service, name), service, name)

\* Variant: deleting a row that does not exist raises (as Store._delete does).
delete_must_exist(tbl, service, name) ==
    IF <<service, name>> \in DOMAIN tbl
    THEN [result |-> Returned(PyDict(EmptyDict)),
          table |-> delete_item(tbl, service, name),
          calls |-> <<TableCall("delete_item", service, name)>>]
    ELSE [result |-> Raised("ModelNotFoundError"),
          table |-> tbl,
          calls |-> <<TableCall("delete_item", service, name)>>]

\* DynamoDBLoader.delete(service, name): [result, table, calls].  What is
\* returned is the delete_item response, a dict whose metadata is not modelled.
delete(tbl, service, name) ==
    [result |-> Returned(PyDict(EmptyDict)),
     table |-> delete_item(tbl, service, name),
     calls |-> <<TableCall("delete_item", service, name)>>]

\* Variant: the whole table is scanned, whatever the service.
all_scan(loaderClass, tbl, service) ==
    With(SortStrs({k[2] : k \in DOMAIN tbl}), LAMBDA names :
        [i \in 1..Len(names) |->
            Project(tbl[CHOOSE k \in DOMAIN tbl : k[2] = names[i]],
                    {CONFIG_NAME} \cup FieldsOf(value_type(loaderClass)))] \o <<>>)

\* DynamoDBLoader.all(service): the Items of the query for the service.
all(loaderClass, tbl, service) ==
    query(tbl, service, {CONFIG_NAME} \cup FieldsOf(value_type(loaderClass)))

\* Variant: when the key service refuses the default context, decrypt is
\* tried again under the context {"e": "p"}.
get_plaintext_trying_contexts(python2, loaderClass, kms, value) ==
    IF loaderClass = "EncryptedDynamoDBLoader"
    THEN With(decrypt(python2, kms, value, PyNone), LAMBDA first :
         IF first.result.outcome = "raise"
         THEN decrypt(python2, kms, value, PyDict(<<101>> :> <<112>>))
         ELSE first)
    ELSE [result |-> Returned(PyStr(value.fields.plaintext)), kms |-> 0, cipher |-> 0]

\* get_plaintext(value) of the two loaders: the plaintext field, or
\* decrypt(value) with the default context.
get_plaintext(python2, loaderClass, kms, value) ==
    IF loaderClass = "EncryptedDynamoDBLoader"
    THEN decrypt(python2, kms, value, PyNone)
    ELSE [result |-> Returned(PyStr(value.fields.plaintext)), kms |-> 0, cipher |-> 0]

\* Variant: a row that cannot be made into a value or whose plaintext cannot
\* be had is left out, and the rows after it are still processed.
RECURSIVE items_from_skipping_failed_rows(_, _, _, _, _)
items_from_skipping_failed_rows(python2, loaderClass, kms, rows, i) ==
    IF i > Len(rows)
    THEN [ok |-> TRUE, exc |-> "", items |-> <<>>, kms |-> 0, cipher |-> 0]
    ELSE
    With(items_from_skipping_failed_rows(python2, loaderClass, kms, rows, i + 1),
         LAMBDA rest :
    With(rows[i], LAMBDA row :
    IF CONFIG_NAME \notin DOMAIN row THEN rest
    ELSE
    With(NewValue(value_type(loaderClass), DictWithout(row, {CONFIG_NAME})), LAMBDA made :
    IF made.outcome = "raise" THEN rest
    ELSE
    With(get_plaintext(python2, loaderClass, kms, made.value), LAMBDA plain :
    IF plain.result.outcome = "raise"
    THEN [ok |-> TRUE, exc |-> "", items |-> rest.items,
          kms |-> plain.kms + rest.kms, cipher |-> plain.cipher + rest.cipher]
    ELSE
        [ok |-> TRUE, exc |-> "",
         items |-> <<<<row[CONFIG_NAME], plain.result.value.fields.value>>>> \o rest.items,
         kms |-> plain.kms + rest.kms, cipher |-> plain.cipher + rest.cipher]))))

\* The list comprehension of items() over rows i..Len(rows): the pairs
\* <<name, plaintext>> in row order, or the exception of the first row that
\* raises; kms and cipher count the decrypt work done until then.
RECURSIVE items_from(_, _, _, _, _)
items_from(python2, loaderClass, kms, rows, i) ==
    IF i > Len(rows)
    THEN [ok |-> TRUE, exc |-> "", items |-> <<>>, kms |-> 0, cipher |-> 0]
    ELSE
    With(rows[i], LAMBDA row :
    IF CONFIG_NAME \notin DOMAIN row
    THEN [ok |-> FALSE, exc |-> "KeyError", items |-> <<>>, kms |-> 0, cipher |-> 0]
    ELSE
    With(NewValue(value_type(loaderClass), DictWithout(row, {CONFIG_NAME})), LAMBDA made :
    IF made.outcome = "raise"
    THEN [ok |-> FALSE, exc |-> made.exc, items |-> <<>>, kms |-> 0, cipher |-> 0]
    ELSE
    With(get_plaintext(python2, loaderClass, kms, made.value), LAMBDA plain :
    IF plain.result.outcome = "raise"
    THEN [ok |-> FALSE, exc |-> plain.result.exc, items |-> <<>>,
          kms |-> plain.kms, cipher |-> plain.cipher]
    ELSE
    With(items_from(python2, loaderClass, kms, rows, i + 1), LAMBDA rest :
        [ok |-> rest.ok, exc |-> rest.exc,
         items |-> IF rest.ok
                   THEN <<<<row[CONFIG_NAME], plain.result.value.fields.value>>>>
                        \o rest.items
                   ELSE <<>>,
         kms |-> plain.kms + rest.kms, cipher |-> plain.cipher + rest.cipher]))))

\* DynamoDBLoader.items(service)
items(python2, loaderClass, kms, tbl, service) ==
    With(all(loaderClass, tbl, service),
         LAMBDA rows : items_from(python2, loaderClass, kms, rows, 1))

\* ------------------------------------------------------ nested configuration

\* The dict __call__ builds is a function from the paths of its entries to
\* nodes: a path is the sequence of keys from the root dict (the root itself,
\* <<>>, is not an entry); a node is a string or a dict.
StrNode(s) == [kind |-> "str", val |-> s]

DictNode == [kind |-> "dict", val |-> <<>>]

\* The object a reference denotes: the root dict, or the node at the path.
IsDictAt(cfg, at) == at = <<>> \/ (at \in DOMAIN cfg /\ cfg[at].kind = "dict")

\* d.setdefault(key, {}) on the dict at `at`: [ok, cfg, ref]; ref is the path
\* of the object returned, the existing entry or the new empty dict.  A str
\* has no setdefault (ok is FALSE).
setdefault(cfg, at, key) ==
    With(Append(at, key), LAMBDA p :
        IF ~IsDictAt(cfg, at) THEN [ok |-> FALSE, cfg |-> cfg, ref |-> at]
        ELSE IF p \in DOMAIN cfg THEN [ok |-> TRUE, cfg |-> cfg, ref |-> p]
        ELSE [ok |-> TRUE, cfg |-> (p :> DictNode) @@ cfg, ref |-> p])

\* d[key] = value on the object at `at`: the entry is created or replaced
\* (with whatever was below it); a str does not support item assignment.
setitem(cfg, at, key, value) ==
    With(Append(at, key), LAMBDA p :
        IF ~IsDictAt(cfg, at) THEN [ok |-> FALSE, cfg |-> cfg]
        ELSE [ok |-> TRUE,
              cfg |-> [q \in {q \in DOMAIN cfg : ~IsPrefix(p, q)} \cup {p} |->
                          IF q = p THEN StrNode(value) ELSE cfg[q]]])

\* The dict whose setdefault line 202 calls, given the dict reached so far:
\* `config.setdefault(...)`, the root dict.
setdefault_receiver(config_part) == <<>>

\* The loop `for name_part in name_parts[:-1]` from part i on: each step calls
\* setdefault and rebinds config_part to what it returns.
RECURSIVE walk(_, _, _, _)
walk(cfg, config_part, parts, i) ==
    IF i > Len(parts) THEN [ok |-> TRUE, exc |-> "", cfg |-> cfg, ref |-> config_part]
    ELSE With(setdefault(cfg, setdefault_receiver(config_part), parts[i]), LAMBDA r :
             IF ~r.ok
             THEN [ok |-> FALSE, exc |-> "AttributeError", cfg |-> cfg, ref |-> config_part]
             ELSE walk(r.cfg, r.ref, parts, i + 1))

\* The body of the loop of __call__ for one item: split the name, walk, save.
call_item(cfg, name, value) ==
    With(Split(name, separator), LAMBDA name_parts :
    With(walk(cfg, <<>>, Front(name_parts), 1), LAMBDA w :
    IF ~w.ok THEN [ok |-> FALSE, exc |-> w.exc, cfg |-> cfg]
    ELSE
    With(setitem(w.cfg, w.ref, Last(name_parts), value), LAMBDA saved :
    IF ~saved.ok THEN [ok |-> FALSE, exc |-> "TypeError", cfg |-> cfg]
    ELSE [ok |-> TRUE, exc |-> "", cfg |-> saved.cfg])))

\* The loop of __call__ over items i..Len(its), from the dict built so far.
RECURSIVE call_loop(_, _, _)
call_loop(cfg, its, i) ==
    IF i > Len(its) THEN ReturnedConfig(cfg)
    ELSE With(call_item(cfg, its[i][1], its[i][2]), LAMBDA r :
             IF ~r.ok THEN Raised(r.exc) ELSE call_loop(r.cfg, its, i + 1))

\* DynamoDBLoader.__call__(metadata) with metadata.name = service:
\* [result, calls, kms, cipher].
call(python2, loaderClass, kms, tbl, service) ==
    With(items(python2, loaderClass, kms, tbl, service), LAMBDA its :
        [result |-> IF ~its.ok THEN Raised(its.exc) ELSE call_loop(EmptyDict, its.items, 1),
         calls |-> <<TableCall("query", service, <<>>)>>,
         kms |-> its.kms,
         cipher |-> its.cipher])

\* ------------------------------------------------------------------ inputs

\* Service names: "s1", "s2".
Services == {<<115, 49>>, <<115, 50>>}

\* Configuration names: "f", "b", "b.z", "a.b.c" (one, two and three segments,
\* and a name that is a prefix path of another).
Names == {<<102>>, <<98>>, <<98, 46, 122>>, <<97, 46, 98, 46, 99>>}

\* The keys the callers use: every name under "s1", and "f" under "s2".
Keys == {<<<<115, 49>>, n>> : n \in Names} \cup {<<<<115, 50>>, <<102>>>>}

\* Encryption contexts: None, {} and {"e": "p"}.
Contexts == {PyNone, PyDict(EmptyDict), PyDict(<<101>> :> <<112>>)}

\* The encrypt calls made by callers that go on to put the value:
\* encrypt("v") and, under {"e": "p"}, on Python 3 encrypt("é") and on
\* Python 2 encrypt(u"vv").
EncryptInputs(python2) ==
    {[plaintext |-> PyStr(<<118>>), context |-> PyNone],
     [plaintext |-> IF python2 THEN PyUnicode(<<118, 118>>) ELSE PyStr(<<233>>),
      context |-> PyDict(<<101>> :> <<112>>)]}

LoaderClasses == {"DynamoDBLoader", "EncryptedDynamoDBLoader"}

\* A copy of an EncryptedValue with character i of its integrity tag replaced
\* by another hexadecimal digit.
TamperTag(value, i) ==
    LET tag == value.fields.cyphertext_hmac
    IN  EncryptedValue(value.fields.cyphertext_key, value.fields.cyphertext,
                       [tag EXCEPT ![i] = IF @ = 48 THEN 49 ELSE 48])

\* A copy of an EncryptedValue with the first character of its base64
\* ciphertext replaced by another character of the alphabet.
TamperCiphertext(value) ==
    EncryptedValue(value.fields.cyphertext_key,
                   TamperText(value.fields.cyphertext),
                   value.fields.cyphertext_hmac)

\* A copy of an EncryptedValue whose wrapped key lost its last character (a
\* text that is not whole base64).
CutKey(value) ==
    EncryptedValue(Front(value.fields.cyphertext_key), value.fields.cyphertext,
                   value.fields.cyphertext_hmac)

\* A copy of an EncryptedValue whose ciphertext lost its last character.
CutCiphertext(value) ==
    EncryptedValue(value.fields.cyphertext_key, Front(value.fields.cyphertext),
                   value.fields.cyphertext_hmac)

\* A copy of an EncryptedValue with a space after the first character of its
\* wrapped key (a character base64 decoding skips).
SpacedKey(value) ==
    EncryptedValue(<<Head(value.fields.cyphertext_key), 32>>
                       \o Tail(value.fields.cyphertext_key),
                   value.fields.cyphertext, value.fields.cyphertext_hmac)

\* An EncryptedValue made by another loader (what a caller of the plaintext
\* loader may hold).
ForeignEncryptedValue ==
    encrypt(FALSE, PyStr(<<118>>), KmsGenerateDataKey(1, EmptyDict)).value

\* ------------------------------------------------------------------- state

VARIABLES
    loaderClass,        \* the class of the loader constructed
    namedtupleHasDict,  \* whether the interpreter gives namedtuples a __dict__:
                        \* TRUE is Python 2.7, FALSE is Python 3.5 and later
    table,              \* the rows of the DynamoDB table
    kmsIssued,          \* data keys the key service has generated
    held,               \* the EncryptedValue the last encrypt() returned
    lastOp,             \* the last call made on the loader and its arguments
    result,             \* what that call returned or raised
    tableCalls,         \* the table round trips of that call, in order
    kmsCalls,           \* the key service requests of that call
    cipherCalls,        \* the decryptor.decrypt calls of that call
    fault,              \* what failed outside the loader during that call
    putLog,             \* key -> the value of the last successful put (history)
    usedKeys            \* k -> what the encrypt() call that was answered with
                        \* the k-th data key used and encrypted (history)

vars == <<loaderClass, namedtupleHasDict, table, kmsIssued, held, lastOp, result,
          tableCalls, kmsCalls, cipherCalls, fault, putLog, usedKeys>>

\* The failures a call met: whether its table round trip failed, and the
\* data keys about which the key service failed to answer.
Fault(tableFailed, kmsFailing) == [table |-> tableFailed, kms |-> kmsFailing]

NoFault == Fault(FALSE, {})

NoHeld == [has |-> FALSE, value |-> PyNone, plaintext |-> PyNone, context |-> PyNone]

Op(name, service, item, arg, context, present, tamper) ==
    [name |-> name, service |-> service, item |-> item, arg |-> arg,
     context |-> context, present |-> present, tamper |-> tamper]

Init ==
    /\ loaderClass \in LoaderClasses
    /\ namedtupleHasDict \in BOOLEAN
    /\ table = EmptyDict
    /\ kmsIssued = 0
    /\ held = NoHeld
    /\ lastOp = Op("init", <<>>, <<>>, PyNone, PyNone, FALSE, "")
    /\ result = Returned(PyNone)
    /\ tableCalls = <<>>
    /\ kmsCalls = 0
    /\ cipherCalls = 0
    /\ fault = NoFault
    /\ putLog = EmptyDict
    /\ usedKeys = EmptyDict

\* The values a caller passes to put: a PlaintextValue, a bare str, and an
\* EncryptedValue (with the encrypted loader, the one its encrypt() last
\* returned).
PutValues ==
    {PlaintextValue(p) : p \in Plaintexts}
    \cup {PyStr(<<118>>)}
    \cup (IF loaderClass = "DynamoDBLoader" THEN {ForeignEncryptedValue}
          ELSE IF held.has THEN {held.value}
          ELSE {})

\* loader.put(service, name, value)
Put(service, name, value) ==
    \E r \in {put(loaderClass, namedtupleHasDict, table, service, name, value)} :
        /\ <<service, name>> \in DOMAIN table \/ Cardinality(DOMAIN table) < MaxRows
        /\ table' = r.table
        /\ result' = r.result
        /\ tableCalls' = r.calls
        /\ lastOp' = Op("put", service, name, value, PyNone,
                        <<service, name>> \in DOMAIN table, "")
        /\ putLog' = IF r.calls # <<>>
                     THEN (<<service, name>> :> value) @@ putLog
                     ELSE putLog
        /\ kmsCalls' = 0
        /\ cipherCalls' = 0
        /\ fault' = NoFault
        /\ UNCHANGED <<loaderClass, namedtupleHasDict, kmsIssued, held, usedKeys>>

\* loader.get(service, name); `failed` says that the round trip to the table
\* fails.
Get(service, name, failed) ==
    LET response == IF failed THEN get_item_failed ELSE get_item(table, service, name)
        r == get_of(loaderClass, response, service, name)
    IN  /\ fault' = Fault(failed, {})
        /\ result' = r.result
        /\ tableCalls' = r.calls
        /\ lastOp' = Op("get", service, name, PyNone, PyNone,
                        <<service, name>> \in DOMAIN table, "")
        /\ kmsCalls' = 0
        /\ cipherCalls' = 0
        /\ UNCHANGED <<loaderClass, namedtupleHasDict, table, kmsIssued, held,
                       putLog, usedKeys>>

\* loader.delete(service, name)
Delete(service, name) ==
    \E r \in {delete(table, service, name)} :
        /\ table' = r.table
        /\ result' = r.result
        /\ tableCalls' = r.calls
        /\ lastOp' = Op("delete", service, name, PyNone, PyNone,
                        <<service, name>> \in DOMAIN table, "")
        /\ putLog' = IF r.result.outcome = "return"
                     THEN [k \in (DOMAIN putLog) \ {<<service, name>>} |-> putLog[k]]
                     ELSE putLog
        /\ kmsCalls' = 0
        /\ cipherCalls' = 0
        /\ fault' = NoFault
        /\ UNCHANGED <<loaderClass, namedtupleHasDict, kmsIssued, held, usedKeys>>

\* loader(metadata) with metadata.name = service; the key service fails to
\* answer about the keys in `failing`.
Load(service, failing) ==
    \E r \in {call(namedtupleHasDict, loaderClass, KmsState(kmsIssued, failing),
                   table, service)} :
        /\ fault' = Fault(FALSE, failing)
        /\ result' = r.result
        /\ tableCalls' = r.calls
        /\ kmsCalls' = r.kms
        /\ cipherCalls' = r.cipher
        /\ lastOp' = Op("load", service, <<>>, PyNone, PyNone,
                        query_keys(table, service) # {}, "")
        /\ UNCHANGED <<loaderClass, namedtupleHasDict, table, kmsIssued, held,
                       putLog, usedKeys>>

\* loader.encrypt(plaintext, context): one generate_data_key request, then
\* the value is built from its answer; the request fails when the key it
\* would be answered with is in `failing`.
Encrypt(plaintext, context, failing) ==
    /\ loaderClass = "EncryptedDynamoDBLoader"
    /\ kmsIssued < MaxKeys
    /\ \E r \in {encrypt_request(namedtupleHasDict, KmsState(kmsIssued, failing),
                                 plaintext, context)} :
        /\ kmsIssued' = r.issued
        /\ held' = IF r.result.outcome = "return"
                    THEN [has |-> TRUE, value |-> r.result.value,
                          plaintext |-> plaintext, context |-> context]
                    ELSE held
        /\ usedKeys' = IF r.result.outcome = "return"
                        THEN ((kmsIssued + 1) :>
                                [data_key |-> encrypt_data_key(KmsMaterial(kmsIssued + 1)),
                                 hmac_key |-> encrypt_hmac_key(KmsMaterial(kmsIssued + 1)),
                                 plaintext |-> plaintext,
                                 context |-> NormalizeContext(context),
                                 value |-> r.result.value])
                             @@ usedKeys
                        ELSE usedKeys
        /\ result' = r.result
        /\ lastOp' = Op("encrypt", <<>>, <<>>, plaintext, context, FALSE, "")
        /\ tableCalls' = <<>>
        /\ kmsCalls' = r.kms
        /\ cipherCalls' = 0
        /\ fault' = Fault(FALSE, failing)
        /\ UNCHANGED <<loaderClass, namedtupleHasDict, table, putLog>>

\* The values a caller passes to decrypt: the held value, tampered copies,
\* and copies whose base64 texts were cut short or spaced out.
DecryptInputs ==
    IF ~held.has THEN {}
    ELSE {[value |-> held.value, tamper |-> "none"],
          [value |-> TamperTag(held.value, 1), tamper |-> "tag"],
          [value |-> TamperTag(held.value, 2 * DigestSize), tamper |-> "tag"],
          [value |-> TamperCiphertext(held.value), tamper |-> "ciphertext"],
          [value |-> CutKey(held.value), tamper |-> "key_cut"],
          [value |-> CutCiphertext(held.value), tamper |-> "ciphertext_cut"],
          [value |-> SpacedKey(held.value), tamper |-> "key_spaced"]}

\* loader.decrypt(value, context); the key service fails to answer about the
\* keys in `failing`.
Decrypt(input, context, failing) ==
    /\ loaderClass = "EncryptedDynamoDBLoader"
    /\ \E r \in {decrypt(namedtupleHasDict, KmsState(kmsIssued, failing),
                         input.value, context)} :
        /\ fault' = Fault(FALSE, failing)
        /\ result' = r.result
        /\ kmsCalls' = r.kms
        /\ cipherCalls' = r.cipher
        /\ lastOp' = Op("decrypt", <<>>, <<>>, input.value, context, FALSE, input.tamper)
        /\ tableCalls' = <<>>
        /\ UNCHANGED <<loaderClass, namedtupleHasDict, table, kmsIssued, held,
                       putLog, usedKeys>>

\* The value attributes of the rows another writer of the table leaves in it:
\* with the plaintext loader none at all or those of the other value type;
\* with the encrypted loader those of a value the loader encrypted, with its
\* tag changed, without its tag, or with a wrapped key that is not whole
\* base64.
ForeignFields ==
    IF loaderClass = "DynamoDBLoader"
    THEN {EmptyDict, ForeignEncryptedValue.fields}
    ELSE IF held.has
         THEN {TamperTag(held.value, 1).fields,
               DictWithout(held.value.fields, {"cyphertext_hmac"}),
               CutKey(held.value).fields}
    ELSE {}

\* table.put_item(Item=...) by another writer of the table (the table is
\* shared and is not written through put() alone).
ForeignWrite(service, name, fields) ==
    /\ <<service, name>> \in DOMAIN table \/ Cardinality(DOMAIN table) < MaxRows
    /\ table' = put_item(table, put_item_of(service, name, fields))
    /\ lastOp' = Op("foreign_write", service, name, PyNone, PyNone,
                    <<service, name>> \in DOMAIN table, "")
    /\ result' = Returned(PyNone)
    /\ tableCalls' = <<>>
    /\ kmsCalls' = 0
    /\ cipherCalls' = 0
    /\ fault' = NoFault
    /\ UNCHANGED <<loaderClass, namedtupleHasDict, kmsIssued, held, putLog, usedKeys>>

\* The loader as a configuration source and store: put, get, delete and the
\* loader call, with encrypt supplying the values an encrypted loader puts.
Next ==
    \/ \E key \in Keys, value \in PutValues : Put(key[1], key[2], value)
    \/ \E key \in Keys : Get(key[1], key[2], FALSE)
    \/ \E key \in Keys : Delete(key[1], key[2])
    \/ \E service \in Services : Load(service, {})
    \/ \E input \in EncryptInputs(namedtupleHasDict) :
           Encrypt(input.plaintext, input.context, {})

Spec == Init /\ [][Next]_vars

\* The envelope encryption of the encrypted loader on its own: encrypt and
\* decrypt calls over every plaintext and context.
InitCrypto == Init /\ loaderClass = "EncryptedDynamoDBLoader"

NextCrypto ==
    \/ \E plaintext \in EncryptPlaintexts(namedtupleHasDict), context \in Contexts :
           Encrypt(plaintext, context, {})
    \/ \E input \in DecryptInputs, context \in Contexts : Decrypt(input, context, {})

SpecCrypto == InitCrypto /\ [][NextCrypto]_vars

\* The keys used where the table and the key service may fail: "f" and "b"
\* under "s1".
KeysFault == {<<<<115, 49>>, <<102>>>>, <<<<115, 49>>, <<98>>>>}

\* The loader with what surrounds it misbehaving: table round trips of get
\* fail, key service requests fail, and other writers leave rows in the table
\* that are not rows of the loader's value type.  The callers put values of
\* the loader's value type only.
NextFault ==
    \/ \E key \in KeysFault,
          value \in {v \in PutValues : put_isinstance(v, value_type(loaderClass))} :
           Put(key[1], key[2], value)
    \/ \E key \in KeysFault, fields \in ForeignFields :
           ForeignWrite(key[1], key[2], fields)
    \/ \E key \in KeysFault, failed \in BOOLEAN : Get(key[1], key[2], failed)
    \/ \E service \in {key[1] : key \in KeysFault},
          failing \in {{}} \cup {{k} : k \in 1..kmsIssued} :
           Load(service, failing)
    \/ \E input \in EncryptInputs(namedtupleHasDict), failing \in {{}, {kmsIssued + 1}} :
           Encrypt(input.plaintext, input.context, failing)
    \/ \E input \in {i \in DecryptInputs : i.tamper \in {"none", "key_cut"}},
          failing \in {{}, {kmsIssued}} :
           Decrypt(input, held.context, failing)

SpecFault == Init /\ [][NextFault]_vars

\* ------------------------------------------------------------------ claims

\* The plaintext a stored value stands for: its plaintext field, or for an
\* EncryptedValue what the encrypt() call that made it was given.
ValuePlaintext(value) ==
    IF value.type = "PlaintextValue" THEN value.fields.plaintext
    ELSE usedKeys[CHOOSE k \in DOMAIN usedKeys :
                      usedKeys[k].value = value].plaintext.fields.value

\* The value-type fields of a row, as the value that was put.
RowValue(row) ==
    [type |-> value_type(loaderClass),
     fields |-> DictWithout(row, {SERVICE_NAME, CONFIG_NAME})]

\* The path of a row: its name split on the separator.
RowPath(key) == Split(key[2], separator)

\* Two paths collide when one is a prefix of the other.
Collide(p, q) == IsPrefix(p, q) \/ IsPrefix(q, p)

SameContext(c1, c2) == NormalizeContext(c1) = NormalizeContext(c2)

\* Python's == on strings: a Python 2 byte string and a unicode text are
\* equal when the bytes are ASCII and are the characters of the text.
PyEqual(a, b) ==
    IF a.type = b.type THEN a = b
    ELSE /\ {a.type, b.type} = {"str", "unicode"}
         /\ a.fields.value = b.fields.value
         /\ \A i \in 1..Len(a.fields.value) : a.fields.value[i] < 128

\* The last call decrypted the value the last encrypt() returned, untouched
\* and under the context it was encrypted with.
DecryptOfHeld ==
    /\ lastOp.name = "decrypt"
    /\ lastOp.arg = held.value
    /\ SameContext(lastOp.context, held.context)

\* C1 as the spec states it: for every plaintext string P and context C,
\* encrypt(P, C) gives a value, and decrypt of that value under C returns a
\* string equal to P.
C1_RoundTrip ==
    /\ lastOp.name = "encrypt" => result.outcome = "return"
    /\ DecryptOfHeld
       => /\ result.outcome = "return"
          /\ PyEqual(result.value, held.plaintext)

\* The strings the round trip keeps: on Python 3 a str without a surrogate,
\* on Python 2 an ASCII byte string or an ASCII unicode text.
KeptByRoundTrip(plaintext) ==
    \A i \in 1..Len(plaintext.fields.value) :
        IF namedtupleHasDict
        THEN plaintext.fields.value[i] < 128
        ELSE ~IsSurrogate(plaintext.fields.value[i])

\* C1: for every plaintext string P the round trip keeps, decrypt(encrypt(P,
\* C), C) returns P.  encrypt of another text (a Python 3 str with a lone
\* surrogate, a Python 2 unicode text that is not ASCII) raises
\* UnicodeEncodeError after its one key request; encrypt of a Python 2 byte
\* string that is not ASCII gives a value whose decrypt under C returns the
\* unicode text the bytes are the UTF-8 of, which is not equal to P, or
\* raises UnicodeDecodeError when the bytes are not UTF-8.
C1_RoundTripOfKeptStrings ==
    /\ lastOp.name = "encrypt"
       => IF \/ KeptByRoundTrip(lastOp.arg)
             \/ namedtupleHasDict /\ lastOp.arg.type = "str"
          THEN result.outcome = "return"
          ELSE result = Raised("UnicodeEncodeError") /\ kmsCalls = 1
    /\ DecryptOfHeld
       => IF KeptByRoundTrip(held.plaintext)
          THEN /\ result = Returned(PyText(namedtupleHasDict,
                                           held.plaintext.fields.value))
               /\ PyEqual(result.value, held.plaintext)
          ELSE \/ result = Raised("UnicodeDecodeError")
               \/ /\ result.outcome = "return"
                  /\ result.value.type = "unicode"
                  /\ Utf8Encode(TRUE, result.value.fields.value).bytes
                         = held.plaintext.fields.value
                  /\ ~PyEqual(result.value, held.plaintext)

\* A two-byte plaintext encrypted under {"e": "p"} and decrypted under it.
C1_Witness ==
    /\ DecryptOfHeld
    /\ held.plaintext = PyStr(<<233>>)
    /\ ~namedtupleHasDict
    /\ held.context = PyDict(<<101>> :> <<112>>)
    /\ lastOp.context = held.context
    /\ result = Returned(PyStr(<<233>>))
    /\ cipherCalls = 1

\* The data key of the value the last encrypt() returned.
HeldKey == CHOOSE k \in DOMAIN usedKeys : usedKeys[k].value = held.value

\* The tag stored in the decrypted value differs from the tag recomputed over
\* its ciphertext with the authentication key of the value's data key.
TagDiffers ==
    /\ b64decode(namedtupleHasDict, lastOp.arg.fields.cyphertext).ok
    /\ lastOp.arg.fields.cyphertext_hmac #
           HmacHex(usedKeys[HeldKey].hmac_key,
                   b64decode(namedtupleHasDict, lastOp.arg.fields.cyphertext).bytes)

\* C2: decrypting a copy of an encrypted value whose integrity tag differs
\* from the tag recomputed over the ciphertext raises, the cipher decryption
\* is not reached and no plaintext is returned; under the context the value
\* was encrypted with, what is raised is the integrity error.
C2_IntegrityRejection ==
    (lastOp.name = "decrypt" /\ TagDiffers)
    => /\ result.outcome = "raise"
       /\ result.value = PyNone
       /\ cipherCalls = 0
       /\ SameContext(lastOp.context, held.context)
          => result.exc = "Exception: Computed HMAC does not match stored HMAC"

\* The last hexadecimal digit of the tag was changed and decrypt refused.
C2_Witness ==
    /\ lastOp.name = "decrypt"
    /\ lastOp.arg = TamperTag(held.value, 2 * DigestSize)
    /\ TagDiffers
    /\ SameContext(lastOp.context, held.context)
    /\ result = Raised("Exception: Computed HMAC does not match stored HMAC")
    /\ cipherCalls = 0

\* C3: after load(namespace), every row of the namespace whose path collides
\* with no other row's has its plaintext at the nested path of its segments,
\* with a mapping at every proper prefix of the path, at every depth.
C3_NestedAtEveryDepth ==
    (lastOp.name = "load" /\ result.outcome = "return")
    => \A key \in query_keys(table, lastOp.service) :
          (\A other \in query_keys(table, lastOp.service) \ {key} :
              ~Collide(RowPath(key), RowPath(other)))
          => /\ RowPath(key) \in DOMAIN result.config
             /\ result.config[RowPath(key)] =
                    StrNode(ValuePlaintext(RowValue(table[key])))
             /\ \A i \in 1..(Len(RowPath(key)) - 1) :
                    /\ Take(RowPath(key), i) \in DOMAIN result.config
                    /\ result.config[Take(RowPath(key), i)] = DictNode

\* C4: get(ns, name) of a key that is present returns the plaintext string of
\* the most recent put for the key, not the value-type record.
C4_GetReturnsPlaintext ==
    (lastOp.name = "get" /\ lastOp.present)
    => result = Returned(PyStr(ValuePlaintext(putLog[<<lastOp.service, lastOp.item>>])))

\* C5: delete(ns, name) returns without raising whether or not the row
\* exists; afterwards get(ns, name) returns None and every other row is as it
\* was (so deleting an absent key leaves the table unchanged).
C5_DeleteIdempotent ==
    [][lastOp'.name = "delete"
       => /\ result'.outcome = "return"
          /\ get(loaderClass, table', lastOp'.service, lastOp'.item).result
                 = Returned(PyNone)
          /\ DOMAIN table' = (DOMAIN table) \ {<<lastOp'.service, lastOp'.item>>}
          /\ \A k \in DOMAIN table' : table'[k] = table[k]
          /\ ~lastOp'.present => table' = table]_vars

\* A delete of a key that had no row, from a table holding another row.
C5_Witness ==
    /\ lastOp.name = "delete"
    /\ ~lastOp.present
    /\ result.outcome = "return"
    /\ table # EmptyDict

\* C6: put with a value that is not an instance of the loader's value type
\* raises the type-mismatch error, issues no table write and leaves the table
\* unchanged.
C6_TypeMismatch ==
    [][(lastOp'.name = "put" /\ lastOp'.arg.type # value_type(loaderClass))
       => /\ result' = Raised("Exception: Expected value to be an instance of")
          /\ tableCalls' = <<>>
          /\ table' = table]_vars

\* A PlaintextValue was given to the encrypted loader, whose table holds a row.
C6_Witness ==
    /\ lastOp.name = "put"
    /\ loaderClass = "EncryptedDynamoDBLoader"
    /\ lastOp.arg.type = "PlaintextValue"
    /\ result.outcome = "raise"
    /\ table # EmptyDict

\* C7: a put that succeeds issues exactly one table write; the row written
\* has exactly the two key attributes (the service and the name) and the
\* fields of the value; it replaces the row of the same key, and every other
\* row is unchanged.
C7_PutWritesOneRow ==
    [][(lastOp'.name = "put" /\ result'.outcome = "return")
       => /\ tableCalls' = <<TableCall("put_item", lastOp'.service, lastOp'.item)>>
          /\ DOMAIN table' = (DOMAIN table) \cup {<<lastOp'.service, lastOp'.item>>}
          /\ table'[<<lastOp'.service, lastOp'.item>>] =
                 (SERVICE_NAME :> lastOp'.service) @@ (CONFIG_NAME :> lastOp'.item)
                 @@ lastOp'.arg.fields
          /\ DOMAIN table'[<<lastOp'.service, lastOp'.item>>] =
                 {SERVICE_NAME, CONFIG_NAME} \cup FieldsOf(lastOp'.arg.type)
          /\ \A k \in (DOMAIN table) \ {<<lastOp'.service, lastOp'.item>>} :
                 table'[k] = table[k]]_vars

\* A put replaced the row of its key with another value while a second row
\* was in the table.
C7_Witness ==
    /\ lastOp.name = "put"
    /\ lastOp.present
    /\ result.outcome = "return"
    /\ Cardinality(DOMAIN table) = 2
    /\ table[<<lastOp.service, lastOp.item>>][SERVICE_NAME] = lastOp.service
    /\ \E k \in DOMAIN table :
          /\ k # <<lastOp.service, lastOp.item>>
          /\ RowValue(table[k]) # lastOp.arg

\* Every entry of a returned configuration comes from a row stored in tbl under
\* the service asked for: a string from a row with that plaintext whose last
\* segment is the entry's key, a mapping from a row with the key among its
\* leading segments.
EntriesFromRows(config, service, tbl) ==
    \A p \in DOMAIN config :
        \E key \in DOMAIN tbl :
            /\ key[1] = service
            /\ IF config[p].kind = "str"
               THEN /\ Last(RowPath(key)) = Last(p)
                    /\ ValuePlaintext(RowValue(tbl[key])) = config[p].val
               ELSE \E i \in 1..(Len(RowPath(key)) - 1) : RowPath(key)[i] = Last(p)

\* C8: what load(ns) returns is determined by the rows now stored under ns:
\* it has no entry from a deleted or overwritten row or from another
\* namespace, it is what a load of a table holding only the rows of ns
\* returns, and a load that follows a load of the same namespace returns the
\* same mapping.
C8_LoadFromCurrentRows ==
    [][(lastOp'.name = "load" /\ result'.outcome = "return")
       => /\ EntriesFromRows(result'.config, lastOp'.service, table')
          /\ result' = call(namedtupleHasDict, loaderClass, KmsState(kmsIssued, {}),
                            [k \in {k \in DOMAIN table' : k[1] = lastOp'.service}
                                |-> table'[k]],
                            lastOp'.service).result
          /\ (lastOp.name = "load" /\ lastOp.service = lastOp'.service)
             => result' = result]_vars

\* A load of a service with a row, after rows were put under both services.
C8_Witness ==
    /\ lastOp.name = "load"
    /\ result.outcome = "return"
    /\ result.config # EmptyDict
    /\ \E k1, k2 \in DOMAIN table : k1[1] = lastOp.service /\ k2[1] # lastOp.service

\* C9: load(ns) of a namespace with no rows returns the empty mapping, after
\* one query of the table for that namespace.
C9_EmptyNamespace ==
    (lastOp.name = "load" /\ query_keys(table, lastOp.service) = {})
    => /\ result = ReturnedConfig(EmptyDict)
       /\ tableCalls = <<TableCall("query", lastOp.service, <<>>)>>

\* A load of a service without rows while the other service has one.
C9_Witness ==
    /\ lastOp.name = "load"
    /\ ~lastOp.present
    /\ table # EmptyDict
    /\ result = ReturnedConfig(EmptyDict)

\* C10: every encrypt call uses the two halves of the key material its own
\* generate_data_key request returned, its value is the encryption and tag
\* under those sub-keys with that request's wrapped key, and no two calls
\* use the same data key or authentication key.
C10_OwnDataKey ==
    \A k \in DOMAIN usedKeys :
        /\ usedKeys[k].data_key = Take(KmsMaterial(k), KeySplit)
        /\ usedKeys[k].hmac_key = Drop(KmsMaterial(k), KeySplit)
        /\ b64decode(namedtupleHasDict, usedKeys[k].value.fields.cyphertext_key).bytes
               = KmsWrap(k, usedKeys[k].context)
        /\ b64decode(namedtupleHasDict, usedKeys[k].value.fields.cyphertext).bytes
               = AesCtr(usedKeys[k].data_key, CounterInitial,
                        encryptor_argument(namedtupleHasDict,
                                           usedKeys[k].plaintext).bytes)
        /\ usedKeys[k].value.fields.cyphertext_hmac
               = HmacHex(usedKeys[k].hmac_key,
                         b64decode(namedtupleHasDict, usedKeys[k].value.fields.cyphertext).bytes)
        /\ \A j \in (DOMAIN usedKeys) \ {k} :
               /\ usedKeys[j].data_key # usedKeys[k].data_key
               /\ usedKeys[j].hmac_key # usedKeys[k].hmac_key

\* Two encrypt calls of the same plaintext under the same context gave
\* different values.
C10_Witness ==
    /\ DOMAIN usedKeys = {1, 2}
    /\ usedKeys[1].plaintext = usedKeys[2].plaintext
    /\ usedKeys[1].context = usedKeys[2].context
    /\ usedKeys[1].value.fields.cyphertext # usedKeys[2].value.fields.cyphertext

\* The data key an EncryptedValue row's wrapped key names.
RowDataKey(row) == b64decode(namedtupleHasDict, row["cyphertext_key"]).bytes[1]

\* The row lacks a field of the loader's value type.
RowLacksField(row) == ~(FieldsOf(value_type(loaderClass)) \subseteq DOMAIN row)

\* The row's wrapped key is not base64 text that decodes.
RowKeyUndecodable(row) ==
    /\ loaderClass = "EncryptedDynamoDBLoader"
    /\ ~RowLacksField(row)
    /\ ~b64decode(namedtupleHasDict, row["cyphertext_key"]).ok

\* The row's stored tag is not the tag of its ciphertext under the
\* authentication key of its data key.
RowTagFails(row) ==
    /\ loaderClass = "EncryptedDynamoDBLoader"
    /\ ~RowLacksField(row)
    /\ ~RowKeyUndecodable(row)
    /\ b64decode(namedtupleHasDict, row["cyphertext"]).ok
    /\ row["cyphertext_hmac"] #
           HmacHex(usedKeys[RowDataKey(row)].hmac_key,
                   b64decode(namedtupleHasDict, row["cyphertext"]).bytes)

\* The key service request for the row, made with the empty context by the
\* last call, fails: the service does not answer about the row's data key, or
\* refuses the context.
RowKeyRequestFails(row) ==
    /\ loaderClass = "EncryptedDynamoDBLoader"
    /\ ~RowLacksField(row)
    /\ ~RowKeyUndecodable(row)
    /\ \/ RowDataKey(row) \in fault.kms
       \/ usedKeys[RowDataKey(row)].context # EmptyDict

\* C11: a load of a namespace that holds a row which lacks a value-type
\* field, whose tag does not verify, whose key service request fails or
\* whose wrapped key does not decode, raises and returns no mapping.
C11_LoadAllOrNothing ==
    (/\ lastOp.name = "load"
     /\ \E key \in query_keys(table, lastOp.service) :
            \/ RowLacksField(table[key])
            \/ RowKeyUndecodable(table[key])
            \/ RowTagFails(table[key])
            \/ RowKeyRequestFails(table[key]))
    => /\ result.outcome = "raise"
       /\ result.config = EmptyDict

\* A load of two rows: the first was decrypted, the key service failed on the
\* second, and the load raised the service error.
C11_Witness ==
    /\ lastOp.name = "load"
    /\ Cardinality(query_keys(table, lastOp.service)) = 2
    /\ \E k1, k2 \in query_keys(table, lastOp.service) :
           /\ StrLess(k1[2], k2[2])
           /\ ~RowLacksField(table[k1]) /\ ~RowTagFails(table[k1])
           /\ ~RowKeyRequestFails(table[k1])
           /\ RowKeyRequestFails(table[k2])
           /\ RowDataKey(table[k2]) \in fault.kms
    /\ cipherCalls = 1
    /\ result = Raised("KMSInternalException")

\* C12: a get whose table round trip failed raises the error of the round
\* trip; get returns None only when the table answered and holds no row for
\* the key, never when the round trip failed.
C12_GetFailureSurfaced ==
    lastOp.name = "get"
    => /\ fault.table => result = Raised("ClientError")
       /\ result = Returned(PyNone)
          => (~fault.table /\ <<lastOp.service, lastOp.item>> \notin DOMAIN table)

\* The round trip of a get for a key without a row failed while the table
\* held another row, and get raised.
C12_Witness ==
    /\ lastOp.name = "get"
    /\ fault.table
    /\ <<lastOp.service, lastOp.item>> \notin DOMAIN table
    /\ table # EmptyDict
    /\ result = Raised("ClientError")
    /\ tableCalls = <<TableCall("get_item", lastOp.service, lastOp.item)>>

\* The rows of the service of the last call, in the order the query returns
\* them.
RowsInOrder ==
    LET names == SortStrs({k[2] : k \in query_keys(table, lastOp.service)})
    IN  [i \in 1..Len(names) |-> table[<<lastOp.service, names[i]>>]]

\* The positions of the rows whose processing fails.
FailingRows ==
    {i \in 1..Len(RowsInOrder) :
        \/ RowLacksField(RowsInOrder[i])
        \/ RowKeyUndecodable(RowsInOrder[i])
        \/ RowTagFails(RowsInOrder[i])
        \/ RowKeyRequestFails(RowsInOrder[i])}

\* The key service requests a load makes: one for every row when no row
\* fails; otherwise one for every row before the first that fails, and one
\* for that row unless it lacks a field or its wrapped key does not decode.
RequestsOfLoad ==
    IF FailingRows = {} THEN Len(RowsInOrder)
    ELSE LET first == CHOOSE i \in FailingRows : \A j \in FailingRows : i <= j
         IN  IF RowLacksField(RowsInOrder[first]) \/ RowKeyUndecodable(RowsInOrder[first])
             THEN first - 1
             ELSE first

\* C13 as stated: every encrypt and decrypt call makes exactly one key service
\* request; a load makes exactly one table read, and with the encrypted
\* loader exactly as many key service requests as the namespace has rows,
\* with the plaintext loader none.
C13_OneRequestPerRow ==
    /\ lastOp.name \in {"encrypt", "decrypt"} => kmsCalls = 1
    /\ lastOp.name = "load"
       => /\ tableCalls = <<TableCall("query", lastOp.service, <<>>)>>
          /\ kmsCalls = IF loaderClass = "EncryptedDynamoDBLoader"
                        THEN Cardinality(query_keys(table, lastOp.service))
                        ELSE 0

\* C13 amended: every encrypt call makes exactly one key service request,
\* also when the request fails, and so does every decrypt call of a value
\* whose wrapped key decodes (a decrypt call of a value whose wrapped key
\* does not decode raises before any request); a load makes exactly one
\* table read; with the plaintext loader it makes no key service request;
\* with the encrypted loader a load that returns has made one request for
\* each row, and a load that raises one for each row up to the first row
\* that fails (none for that row when it lacks a field or its wrapped key
\* does not decode).
C13_OneRequestPerProcessedRow ==
    /\ lastOp.name = "encrypt" => kmsCalls = 1
    /\ lastOp.name = "decrypt"
       => kmsCalls = IF b64decode(namedtupleHasDict,
                                  lastOp.arg.fields.cyphertext_key).ok
                     THEN 1 ELSE 0
    /\ lastOp.name = "load"
       => /\ tableCalls = <<TableCall("query", lastOp.service, <<>>)>>
          /\ loaderClass = "DynamoDBLoader" => kmsCalls = 0
          /\ loaderClass = "EncryptedDynamoDBLoader"
             => /\ kmsCalls = RequestsOfLoad
                /\ kmsCalls <= Len(RowsInOrder)
                /\ result.outcome = "return" => kmsCalls = Len(RowsInOrder)

\* A load of two rows by the encrypted loader stopped at the first row, on
\* which the key service failed, after one request.
C13_Witness ==
    /\ lastOp.name = "load"
    /\ loaderClass = "EncryptedDynamoDBLoader"
    /\ Len(RowsInOrder) = 2
    /\ ~RowLacksField(RowsInOrder[1])
    /\ ~RowKeyUndecodable(RowsInOrder[1])
    /\ RowDataKey(RowsInOrder[1]) \in fault.kms
    /\ kmsCalls = 1
    /\ result = Raised("KMSInternalException")

\* p is a strict prefix of q.
StrictPrefix(p, q) == IsPrefix(p, q) /\ p # q

\* C14: a load of a namespace that holds a row whose path is a strict prefix
\* of another row's path, every row of which can be read, returns without
\* raising, and the entry of the row processed later has replaced the entry
\* of the row processed first: the longer row follows the shorter in the
\* query's order, so its value is at its nested path, under a mapping where
\* the shorter row's scalar was.
C14_PrefixCollisionReplaced ==
    (/\ lastOp.name = "load"
     /\ FailingRows = {}
     /\ \E k1, k2 \in query_keys(table, lastOp.service) :
            StrictPrefix(RowPath(k1), RowPath(k2)))
    => /\ result.outcome = "return"
       /\ \A k1, k2 \in query_keys(table, lastOp.service) :
              StrictPrefix(RowPath(k1), RowPath(k2))
              => /\ RowPath(k2) \in DOMAIN result.config
                 /\ result.config[RowPath(k2)] =
                        StrNode(ValuePlaintext(RowValue(table[k2])))
                 /\ result.config[RowPath(k1)] = DictNode

\* C15: the encrypted loader's load decrypts every row under the empty
\* context, whatever context its value was encrypted under: a load of a
\* namespace holding a value that was encrypted under a non-empty context is
\* refused by the key service and raises, so a load that returns has only
\* rows encrypted under the empty context; and when every row was encrypted
\* under the empty context and no two paths collide, the load returns.
C15_LoadDecryptsUnderEmptyContext ==
    (lastOp.name = "load" /\ loaderClass = "EncryptedDynamoDBLoader")
    => /\ (\E key \in query_keys(table, lastOp.service) :
               usedKeys[RowDataKey(table[key])].context # EmptyDict)
          => /\ result = Raised("InvalidCiphertextException")
             /\ cipherCalls < Cardinality(query_keys(table, lastOp.service))
       /\ result.outcome = "return"
          => \A key \in query_keys(table, lastOp.service) :
                usedKeys[RowDataKey(table[key])].context = EmptyDict
       /\ (/\ \A key \in query_keys(table, lastOp.service) :
                 usedKeys[RowDataKey(table[key])].context = EmptyDict
           /\ \A k1, k2 \in query_keys(table, lastOp.service) :
                 k1 # k2 => ~Collide(RowPath(k1), RowPath(k2)))
          => /\ result.outcome = "return"
             /\ kmsCalls = Cardinality(query_keys(table, lastOp.service))

\* A value encrypted under {"e": "p"} was put, and the load of its namespace
\* was refused by the key service on its one request.
C15_Witness ==
    /\ lastOp.name = "load"
    /\ loaderClass = "EncryptedDynamoDBLoader"
    /\ \E key \in query_keys(table, lastOp.service) :
           /\ usedKeys[RowDataKey(table[key])].context = (<<101>> :> <<112>>)
           /\ usedKeys[RowDataKey(table[key])].value = RowValue(table[key])
    /\ result = Raised("InvalidCiphertextException")
    /\ kmsCalls = 1
    /\ cipherCalls = 0

====
